---------------------------- MODULE Spec2Model ----------------------------
(***************************************************************************)
(* BLPgas::Send (Src/C_BaseLib/BLPgas.cpp): sender-side tag matching of    *)
(* the two halves of a point-to-point transfer.  The table                 *)
(* pgas_send_info_map is a multimap from the destination rank to SendInfo  *)
(* descriptors; a call either completes a stored descriptor with the same  *)
(* rank and SeqNum (and fires async_copy_and_signal) or stores its         *)
(* arguments as a new descriptor.                                          *)
(***************************************************************************)
EXTENDS Integers, Sequences, FiniteSets, TLC

(***************************************************************************)
(* Bounds of the model.                                                    *)
(***************************************************************************)
MaxCalls == 4

(***************************************************************************)
(* Values.  A raw address 0 is the NULL of a global_ptr; an event or       *)
(* counter pointer is the name of the object it points to, or "NULL".      *)
(***************************************************************************)
NULL == 0
MyRank == 0
NullPtr == "NULL"

Ranks == {1, 2}
SeqNums == {1, 2}
Sizes == {64, 128}
Keys == Ranks \X SeqNums
Roles == {"src", "dst", "both", "neither"}

global_ptr(rank, raw) == [where |-> rank, raw |-> raw]

\* Every message has its own buffers: the send buffer on this rank and the
\* receive buffer on the destination rank, one pair per (rank, SeqNum).
SrcAddr(rank, SeqNum) == 10 * rank + SeqNum
DstAddr(rank, SeqNum) == 100 + 10 * rank + SeqNum

(***************************************************************************)
(* The argument tuples of a call.  A source half is what the local sender  *)
(* passes: its buffer, a NULL destination on the receiving rank, no        *)
(* signal_event, its done_event and its counter.  A destination half is    *)
(* what the receiver's request passes: a NULL source, the receive buffer,  *)
(* the receiver's signal_event, no done_event and no counter.              *)
(***************************************************************************)
Args(src, dst, nbytes, SeqNum, signal_event, done_event, send_counter) ==
  [src |-> src, dst |-> dst, nbytes |-> nbytes, SeqNum |-> SeqNum,
   signal_event |-> signal_event, done_event |-> done_event,
   send_counter |-> send_counter]

\* the fill-boundary and fill-patch channels: done_event and its counter
Channels == {<<"fb_send_event", "fb_send_counter">>,
             <<"fpb_send_event", "fpb_send_counter">>}

SourceHalf(r, q, n, ch) ==
  Args(global_ptr(MyRank, SrcAddr(r, q)), global_ptr(r, NULL), n, q,
       NullPtr, ch[1], ch[2])

DestHalf(r, q, n) ==
  Args(global_ptr(MyRank, NULL), global_ptr(r, DstAddr(r, q)), n, q,
       "fb_recv_event", NullPtr, NullPtr)

SourceHalves ==
  { SourceHalf(r, q, n, ch) : r \in Ranks, q \in SeqNums, n \in Sizes, ch \in Channels }

DestHalves == { DestHalf(r, q, n) : r \in Ranks, q \in SeqNums, n \in Sizes }

Halves == SourceHalves \cup DestHalves

RoleOf(a) ==
  IF a.src.raw # NULL /\ a.dst.raw = NULL THEN "src"
  ELSE IF a.src.raw = NULL /\ a.dst.raw # NULL THEN "dst"
  ELSE IF a.src.raw # NULL THEN "both" ELSE "neither"

KeyOf(a) == <<a.dst.where, a.SeqNum>>

(***************************************************************************)
(* State.                                                                  *)
(***************************************************************************)
VARIABLES
  pgas_send_info_map,  \* sequence of <rank, SendInfo> pairs, in iteration order
  fb_send_counter,     \* int BLPgas::fb_send_counter
  fpb_send_counter,    \* int BLPgas::fpb_send_counter
  copies,              \* log of the async_copy_and_signal invocations
  fatal,               \* "none", or the assertion that aborted the process
  ncalls,              \* per key and role, the number of calls made (history)
  total,               \* number of calls made (history, bounds the run)
  last,                \* <<a>>: the arguments of the latest call (history)
  stack                \* calls suspended inside async_copy_and_signal

vars == <<pgas_send_info_map, fb_send_counter, fpb_send_counter, copies,
          fatal, ncalls, total, last, stack>>

\* The part of the state BLPgas::Send reads and writes, as one value.
Machine(map, fb, fpb, log, f) ==
  [map |-> map, fb_send_counter |-> fb, fpb_send_counter |-> fpb,
   copies |-> log, fatal |-> f]

Current ==
  Machine(pgas_send_info_map, fb_send_counter, fpb_send_counter, copies, fatal)

(***************************************************************************)
(* SendInfo and the table.                                                 *)
(***************************************************************************)
\* Variant: the descriptor is built without the counter pointer.
SendInfoNoCounter(a) ==
  [src_ptr |-> a.src, dst_ptr |-> a.dst, nbytes |-> a.nbytes,
   SeqNum |-> a.SeqNum, signal_event |-> a.signal_event,
   done_event |-> a.done_event, send_counter |-> NullPtr]

SendInfo(a) ==
  [src_ptr |-> a.src, dst_ptr |-> a.dst, nbytes |-> a.nbytes,
   SeqNum |-> a.SeqNum, signal_event |-> a.signal_event,
   done_event |-> a.done_event, send_counter |-> a.send_counter]

\* Variant: the range is the whole table, whatever the rank.
equal_rangeAll(map, rank) == DOMAIN map

\* pgas_send_info_map.equal_range(rank): the positions holding that key
equal_range(map, rank) == {i \in DOMAIN map : map[i].first = rank}

\* Variant: the loop accepts the first descriptor of the rank, whatever its
\* SeqNum.
MatchingAnyTag(map, a) == equal_range(map, a.dst.where)

\* Variant: the loop's test also asks for equal nbytes, so a descriptor of
\* the same key and another size is passed over.
MatchingSameSize(map, a) ==
  {i \in equal_range(map, a.dst.where) :
     a.SeqNum = map[i].second.SeqNum /\ a.nbytes = map[i].second.nbytes}

\* the positions the loop's test SeqNum == send_info.SeqNum accepts
Matching(map, a) ==
  {i \in equal_range(map, a.dst.where) : a.SeqNum = map[i].second.SeqNum}

\* Variant: the loop stops at the first descriptor of the table.
FirstMatchFront(map, a) == 1

\* the loop returns at the first accepted position
FirstMatch(map, a) ==
  CHOOSE i \in Matching(map, a) : \A j \in Matching(map, a) : i <= j

\* Variant: only the receiver part of the arguments is stored.
insertReceiverPart(map, a) ==
  Append(map, [first |-> a.dst.where,
               second |-> [SendInfo(a) EXCEPT !.src_ptr.raw = NULL]])

\* pgas_send_info_map.insert(pair(dst.where(), send_info))
insert(map, a) == Append(map, [first |-> a.dst.where, second |-> SendInfo(a)])

\* Variant: the erase removes the last descriptor of the table, not *it.
eraseLast(map, it) == SubSeq(map, 1, Len(map) - 1)

\* Variant: the erase removes the first descriptor of the table, not *it.
eraseFront(map, it) == Tail(map)

\* pgas_send_info_map.erase(it)
erase(map, it) == [i \in 1..(Len(map) - 1) |-> IF i < it THEN map[i] ELSE map[i + 1]]

\* Variant: the source branch forgets the done_event.
MergeDropDone(send_info, a) ==
  IF send_info.src_ptr.raw = NULL
    THEN [send_info EXCEPT !.src_ptr = a.src,
                           !.send_counter = a.send_counter]
    ELSE [send_info EXCEPT !.dst_ptr = a.dst,
                           !.signal_event = a.signal_event]

\* lines 86-104: fill the missing half of the stored descriptor in place
Merge(send_info, a) ==
  IF send_info.src_ptr.raw = NULL
    THEN [send_info EXCEPT !.src_ptr = a.src,
                           !.done_event = a.done_event,
                           !.send_counter = a.send_counter]
    ELSE [send_info EXCEPT !.dst_ptr = a.dst,
                           !.signal_event = a.signal_event]

\* SendInfo::check(): both addresses of the merged descriptor are known
check(send_info) ==
  send_info.src_ptr.raw # NULL /\ send_info.dst_ptr.raw # NULL

\* the record of one async_copy_and_signal invocation: its five arguments,
\* and (history) the stored key and the arguments of the completing call
Copy(first, send_info, a) ==
  [src |-> send_info.src_ptr, dst |-> send_info.dst_ptr,
   nbytes |-> send_info.nbytes, signal_event |-> send_info.signal_event,
   done_event |-> send_info.done_event,
   key |-> <<first, send_info.SeqNum>>, call |-> a]

\* Variant: the increment always goes to fb_send_counter.
IncrementFb(m, send_counter) == [m EXCEPT !.fb_send_counter = @ + 1]

\* (*send_info.send_counter)++
Increment(m, send_counter) ==
  IF send_counter = "fb_send_counter"
    THEN [m EXCEPT !.fb_send_counter = @ + 1]
  ELSE IF send_counter = "fpb_send_counter"
    THEN [m EXCEPT !.fpb_send_counter = @ + 1]
  ELSE [m EXCEPT !.fatal = "NullCounter"]

\* Variant: the descriptor is counted and left in the table.
FinishKeep(m, it) == Increment(m, m.map[it].second.send_counter)

\* Variant: the erase removes every descriptor stored under the same rank.
FinishEraseRange(m, it) ==
  LET counted == Increment(m, m.map[it].second.send_counter)
      KeepOther(e) == e.first # m.map[it].first
  IN IF counted.fatal # "none" THEN counted
     ELSE [counted EXCEPT !.map = SelectSeq(m.map, KeepOther)]

\* lines 114-117: count the transfer and delete the descriptor
Finish(m, it) ==
  LET counted == Increment(m, m.map[it].second.send_counter)
  IN IF counted.fatal # "none" THEN counted
     ELSE [counted EXCEPT !.map = erase(m.map, it)]

\* Variant: the size assertion of line 79 is missing.
FireAnySize(m, it, a) ==
  LET send_info == m.map[it].second
      merged == Merge(send_info, a)
  IN IF send_info.src_ptr.raw # NULL /\ send_info.dst_ptr.raw # NULL
       THEN [m EXCEPT !.fatal = "LookupInconsistency"]
     ELSE IF ~check(merged)
       THEN [m EXCEPT !.map[it].second = merged, !.fatal = "DuplicateRole"]
     ELSE [m EXCEPT !.map[it].second = merged,
                    !.copies = Append(@, Copy(m.map[it].first, merged, a))]

\* Variant: send_info.check() of line 106 is not called.
FireUnchecked(m, it, a) ==
  LET send_info == m.map[it].second
      merged == Merge(send_info, a)
  IN IF a.nbytes # send_info.nbytes
       THEN [m EXCEPT !.fatal = "SizeMismatch"]
     ELSE IF send_info.src_ptr.raw # NULL /\ send_info.dst_ptr.raw # NULL
       THEN [m EXCEPT !.fatal = "LookupInconsistency"]
     ELSE [m EXCEPT !.map[it].second = merged,
                    !.copies = Append(@, Copy(m.map[it].first, merged, a))]

\* Variant: the assertion of line 97 is missing.
FireNoDstAssert(m, it, a) ==
  LET send_info == m.map[it].second
      merged == Merge(send_info, a)
  IN IF a.nbytes # send_info.nbytes
       THEN [m EXCEPT !.fatal = "SizeMismatch"]
     ELSE IF ~check(merged)
       THEN [m EXCEPT !.map[it].second = merged, !.fatal = "DuplicateRole"]
     ELSE [m EXCEPT !.map[it].second = merged,
                    !.copies = Append(@, Copy(m.map[it].first, merged, a))]

\* lines 76-112: the matched descriptor is checked, completed and fired
Fire(m, it, a) ==
  LET send_info == m.map[it].second
      merged == Merge(send_info, a)
  IN IF a.nbytes # send_info.nbytes
       THEN [m EXCEPT !.fatal = "SizeMismatch"]
     ELSE IF send_info.src_ptr.raw # NULL /\ send_info.dst_ptr.raw # NULL
       THEN [m EXCEPT !.fatal = "LookupInconsistency"]
     ELSE IF ~check(merged)
       THEN [m EXCEPT !.map[it].second = merged, !.fatal = "DuplicateRole"]
     ELSE [m EXCEPT !.map[it].second = merged,
                    !.copies = Append(@, Copy(m.map[it].first, merged, a))]

\* BLPgas::Send, as one call that async_copy_and_signal does not re-enter
SendCall(m, a) ==
  IF Matching(m.map, a) = {}
    THEN [m EXCEPT !.map = insert(m.map, a)]
    ELSE LET it == FirstMatch(m.map, a)
             fired == Fire(m, it, a)
         IN IF fired.fatal # "none" THEN fired ELSE Finish(fired, it)

(***************************************************************************)
(* Actions.                                                                *)
(***************************************************************************)
Init ==
  /\ pgas_send_info_map = <<>>
  /\ fb_send_counter = 0
  /\ fpb_send_counter = 0
  /\ copies = <<>>
  /\ fatal = "none"
  /\ ncalls = [k \in Keys |-> [r \in Roles |-> 0]]
  /\ total = 0
  /\ last = <<>>
  /\ stack = <<>>

Install(m) ==
  /\ pgas_send_info_map' = m.map
  /\ fb_send_counter' = m.fb_send_counter
  /\ fpb_send_counter' = m.fpb_send_counter
  /\ copies' = m.copies
  /\ fatal' = m.fatal

Count(a) ==
  /\ ncalls' = [ncalls EXCEPT ![KeyOf(a)][RoleOf(a)] = @ + 1]
  /\ total' = total + 1
  /\ last' = <<a>>

\* one call of BLPgas::Send from the progress loop
Send(a) ==
  /\ fatal = "none"
  /\ stack = <<>>
  /\ total < MaxCalls
  /\ Install(SendCall(Current, a))
  /\ Count(a)
  /\ UNCHANGED stack

Next == \E a \in Halves : Send(a)

Spec == Init /\ [][Next]_vars

(***************************************************************************)
(* The same calls with every combination of known and NULL addresses: the  *)
(* signature of BLPgas::Send takes both src and dst, and the function      *)
(* stores or merges whatever it is given.  The source-side fields come     *)
(* with a known src, the destination-side fields with a known dst.         *)
(***************************************************************************)
AnyCall(r, q, n, ch, hasSrc, hasDst) ==
  Args(global_ptr(MyRank, IF hasSrc THEN SrcAddr(r, q) ELSE NULL),
       global_ptr(r, IF hasDst THEN DstAddr(r, q) ELSE NULL), n, q,
       IF hasDst THEN "fb_recv_event" ELSE NullPtr,
       IF hasSrc THEN ch[1] ELSE NullPtr,
       IF hasSrc THEN ch[2] ELSE NullPtr)

AnyCalls ==
  { AnyCall(1, q, n, ch, hasSrc, hasDst) :
      q \in SeqNums, n \in Sizes, ch \in Channels,
      hasSrc \in BOOLEAN, hasDst \in BOOLEAN }

NextAnyArgs == \E a \in AnyCalls : Send(a)

SpecAnyArgs == Init /\ [][NextAnyArgs]_vars

(***************************************************************************)
(* Re-entry.  async_copy_and_signal is called at line 108, before the      *)
(* counter is incremented and the descriptor erased (lines 114-116); while *)
(* it runs, the runtime's progress may deliver further announcements, each *)
(* a nested call of BLPgas::Send.  A frame of the stack is a call          *)
(* suspended inside async_copy_and_signal: its iterator `it`, and whether  *)
(* that iterator is still valid.  An insert into the unordered_multimap of *)
(* the BL_USE_CXX11 build may rehash, which invalidates iterators (not     *)
(* references); the std::multimap build never does.                        *)
(***************************************************************************)
Frame(it, valid) == [it |-> it, valid |-> valid]

Rehashed(frames) == [i \in DOMAIN frames |-> Frame(frames[i].it, FALSE)]

\* the frames below the returning one, after its erase(it)
Popped(frames, it) ==
  [i \in 1..(Len(frames) - 1) |->
     Frame(IF frames[i].it > it THEN frames[i].it - 1 ELSE frames[i].it,
           frames[i].valid)]

\* a call runs from its entry to its return (no match) or to its call of
\* async_copy_and_signal (match), from the progress loop or nested
SendEnter(a) ==
  /\ fatal = "none"
  /\ total < MaxCalls
  /\ Count(a)
  /\ IF Matching(pgas_send_info_map, a) = {}
       THEN /\ Install([Current EXCEPT !.map = insert(pgas_send_info_map, a)])
            /\ \E rehash \in BOOLEAN :
                 stack' = IF rehash THEN Rehashed(stack) ELSE stack
       ELSE LET it == FirstMatch(pgas_send_info_map, a)
                fired == Fire(Current, it, a)
            IN /\ Install(fired)
               /\ stack' = IF fired.fatal = "none"
                             THEN Append(stack, Frame(it, TRUE))
                             ELSE stack

\* async_copy_and_signal returns into the innermost suspended call, which
\* runs lines 114-117
CopyReturn ==
  /\ fatal = "none"
  /\ stack # <<>>
  /\ LET top == stack[Len(stack)]
         counted == Increment(Current, pgas_send_info_map[top.it].second.send_counter)
     IN \/ /\ Install(Finish(Current, top.it))
           /\ stack' = Popped(stack, top.it)
        \/ /\ ~top.valid
           /\ Install([counted EXCEPT !.fatal = "InvalidIterator"])
           /\ stack' = stack
  /\ UNCHANGED <<ncalls, total, last>>

ReentrantCalls == {a \in Halves : a.dst.where = 1}

NextReentrant == (\E a \in ReentrantCalls : SendEnter(a)) \/ CopyReturn

SpecReentrant == Init /\ [][NextReentrant]_vars

(***************************************************************************)
(* Paired runs.  The progress loop announces, for every key of PairKeys,   *)
(* one source half and one destination half, in any order and              *)
(* interleaving; both sides of a message know its size, here 64 bytes per  *)
(* unit of SeqNum, so the two halves of a key carry equal nbytes.  The     *)
(* caller keeps calling BLPgas::Send while a half is still to be           *)
(* announced, which is the weak fairness of NextPairs.                     *)
(***************************************************************************)
PairKeys == {<<1, 1>>, <<1, 2>>, <<2, 1>>}

PairHalves ==
  {a \in Halves : KeyOf(a) \in PairKeys /\ a.nbytes = 64 * a.SeqNum}

PairSend(a) ==
  /\ fatal = "none"
  /\ stack = <<>>
  /\ ncalls[KeyOf(a)][RoleOf(a)] = 0
  /\ Install(SendCall(Current, a))
  /\ Count(a)
  /\ UNCHANGED stack

NextPairs == \E a \in PairHalves : PairSend(a)

SpecPairs == Init /\ [][NextPairs]_vars /\ WF_vars(NextPairs)

(***************************************************************************)
(* Vocabulary of the properties.                                           *)
(***************************************************************************)
\* the table holds a descriptor for key k
HasEntry(map, k) ==
  \E i \in DOMAIN map : map[i].first = k[1] /\ map[i].second.SeqNum = k[2]

\* the copies that move a buffer of message k
CopiesFor(log, k) ==
  {i \in DOMAIN log : \/ log[i].src.raw = SrcAddr(k[1], k[2])
                      \/ log[i].dst.raw = DstAddr(k[1], k[2])}

\* the five arguments of an async_copy_and_signal invocation
CopyArgs(c) ==
  [src |-> c.src, dst |-> c.dst, nbytes |-> c.nbytes,
   signal_event |-> c.signal_event, done_event |-> c.done_event]

CounterValue(m, c) ==
  IF c = "fb_send_counter" THEN m.fb_send_counter ELSE m.fpb_send_counter

OtherCounter(c) ==
  IF c = "fb_send_counter" THEN "fpb_send_counter" ELSE "fb_send_counter"

\* the stored descriptor the call a finds, in the state before the call
Found(a) == pgas_send_info_map[FirstMatch(pgas_send_info_map, a)].second

\* the step is a call for key k that finds k's other half, of equal nbytes,
\* after which k has had exactly one source half and one destination half
SecondHalfOf(k) ==
  /\ ncalls'[k] # ncalls[k]
  /\ ncalls'[k]["src"] = 1 /\ ncalls'[k]["dst"] = 1
  /\ \A i \in Matching(pgas_send_info_map, last'[1]) :
       pgas_send_info_map[i].second.nbytes = last'[1].nbytes

\* the counter supplied with the source half of the pair the call a completes
SourceCounter(a) ==
  IF RoleOf(a) = "src" THEN a.send_counter ELSE Found(a).send_counter

(***************************************************************************)
(* C1  At-most-once firing: when one source half and one destination half  *)
(* of equal nbytes have been announced for a key, in either order and      *)
(* among calls for other keys, the second of the two calls issues exactly  *)
(* one copy for the key, adds exactly 1 to the counter that came with the  *)
(* source half (and nothing to the other counter), and leaves no entry for *)
(* the key; the key then has exactly one copy as long as nothing more is   *)
(* announced for it, and never more than one.                              *)
(***************************************************************************)
AtMostOnceFiring ==
  [][\A k \in Keys :
       /\ SecondHalfOf(k) =>
            /\ fatal' = "none"
            /\ Len(copies') = Len(copies) + 1
            /\ Cardinality(CopiesFor(copies', k)) = 1
            /\ Len(copies') \in CopiesFor(copies', k)
            /\ CounterValue(Current', SourceCounter(last'[1]))
                 = CounterValue(Current, SourceCounter(last'[1])) + 1
            /\ CounterValue(Current', OtherCounter(SourceCounter(last'[1])))
                 = CounterValue(Current, OtherCounter(SourceCounter(last'[1])))
            /\ ~HasEntry(pgas_send_info_map', k)
       /\ (ncalls'[k]["src"] <= 1 /\ ncalls'[k]["dst"] <= 1) =>
            Cardinality(CopiesFor(copies', k)) <= 1
       /\ (ncalls'[k]["src"] = 1 /\ ncalls'[k]["dst"] = 1 /\ fatal' = "none") =>
            /\ Cardinality(CopiesFor(copies', k)) = 1
            /\ ~HasEntry(pgas_send_info_map', k)
       /\ (ncalls'[k]["src"] + ncalls'[k]["dst"] <= 1) =>
            CopiesFor(copies', k) = {}
    ]_vars

\* both halves of key <<1, 1>> announced once each, between calls for other
\* keys; the key fired once and left the table
AtMostOnceFiringWitness ==
  /\ fatal = "none"
  /\ ncalls[<<1, 1>>]["src"] = 1 /\ ncalls[<<1, 1>>]["dst"] = 1
  /\ ncalls[<<1, 2>>]["dst"] = 1 /\ ncalls[<<2, 1>>]["src"] = 1
  /\ Cardinality(CopiesFor(copies, <<1, 1>>)) = 1
  /\ Len(copies) = 1
  /\ fb_send_counter + fpb_send_counter = 1
  /\ ~HasEntry(pgas_send_info_map, <<1, 1>>)
  /\ Len(pgas_send_info_map) = 2

\* the two calls, one after the other, from the table and counters m
Both(m, first, second) == SendCall(SendCall(m, first), second)

RecvEvents == {"fb_recv_event", "fpb_recv_event"}

(***************************************************************************)
(* C2  Order independence: from any reachable state with two calls left    *)
(* whose table has no entry for (peer, SeqNum), the destination half       *)
(* followed by the source half and the source half followed by the         *)
(* destination half both issue the one copy (src of the source half, dst   *)
(* of the destination half, nbytes, signal_event of the destination half,  *)
(* done_event of the source half), add 1 to the source half's counter and  *)
(* nothing to the other, and leave the table as it was.                    *)
(***************************************************************************)
OrderIndependence ==
  \A r \in Ranks, q \in SeqNums :
    ( /\ fatal = "none"
      /\ total + 2 <= MaxCalls
      /\ ~HasEntry(pgas_send_info_map, <<r, q>>) ) =>
      \A n \in Sizes, ch \in Channels, signal_event \in RecvEvents :
        LET S == SourceHalf(r, q, n, ch)
            D == [DestHalf(r, q, n) EXCEPT !.signal_event = signal_event]
            ds == Both(Current, D, S)
            sd == Both(Current, S, D)
            fired == [src |-> S.src, dst |-> D.dst, nbytes |-> n,
                      signal_event |-> signal_event, done_event |-> S.done_event]
        IN /\ ds.fatal = "none" /\ sd.fatal = "none"
           /\ Len(ds.copies) = Len(copies) + 1
           /\ Len(sd.copies) = Len(copies) + 1
           /\ SubSeq(ds.copies, 1, Len(copies)) = copies
           /\ SubSeq(sd.copies, 1, Len(copies)) = copies
           /\ CopyArgs(ds.copies[Len(ds.copies)]) = fired
           /\ CopyArgs(sd.copies[Len(sd.copies)]) = fired
           /\ CounterValue(ds, ch[2]) = CounterValue(Current, ch[2]) + 1
           /\ CounterValue(sd, ch[2]) = CounterValue(Current, ch[2]) + 1
           /\ CounterValue(ds, OtherCounter(ch[2])) = CounterValue(Current, OtherCounter(ch[2]))
           /\ CounterValue(sd, OtherCounter(ch[2])) = CounterValue(Current, OtherCounter(ch[2]))
           /\ ds.map = pgas_send_info_map
           /\ sd.map = pgas_send_info_map

\* a run in which the same message was completed once by its source half
\* and once by its destination half, with the same copy issued both times
OrderIndependenceWitness ==
  /\ fatal = "none"
  /\ Len(copies) = 2
  /\ RoleOf(copies[1].call) = "src"
  /\ RoleOf(copies[2].call) = "dst"
  /\ CopyArgs(copies[1]) = CopyArgs(copies[2])
  /\ pgas_send_info_map = <<>>

\* key k has had exactly one source half and one destination half
OncEach(k) == ncalls[k]["src"] = 1 /\ ncalls[k]["dst"] = 1

CallsFor(k) == ncalls[k]["src"] + ncalls[k]["dst"]

(***************************************************************************)
(* C3  Isolation across tags: every copy issued was completed by a call    *)
(* whose SeqNum is the SeqNum of the stored half, and moves the send       *)
(* buffer and the receive buffer of one and the same message; and when two *)
(* tags of one peer have each had their two halves, in any interleaving,   *)
(* and nothing else was announced, two copies were issued, one per tag,    *)
(* the counters rose by two and the table is empty.                        *)
(***************************************************************************)
IsolationAcrossTags ==
  /\ \A i \in DOMAIN copies :
       /\ copies[i].key = KeyOf(copies[i].call)
       /\ \E q \in SeqNums :
            /\ copies[i].src.raw = SrcAddr(copies[i].dst.where, q)
            /\ copies[i].dst.raw = DstAddr(copies[i].dst.where, q)
  /\ \A r \in Ranks, t1 \in SeqNums, t2 \in SeqNums :
       ( /\ t1 # t2
         /\ fatal = "none"
         /\ OncEach(<<r, t1>>) /\ OncEach(<<r, t2>>)
         /\ \A k \in Keys : k[1] # r => CallsFor(k) = 0 )
       => /\ Len(copies) = 2
          /\ Cardinality(CopiesFor(copies, <<r, t1>>)) = 1
          /\ Cardinality(CopiesFor(copies, <<r, t2>>)) = 1
          /\ fb_send_counter + fpb_send_counter = 2
          /\ pgas_send_info_map = <<>>

\* dest-1, dest-2, src-2, src-1 to peer 1: tag 2 fired first, then tag 1
IsolationAcrossTagsWitness ==
  /\ fatal = "none"
  /\ OncEach(<<1, 1>>) /\ OncEach(<<1, 2>>)
  /\ Len(copies) = 2
  /\ copies[1].key = <<1, 2>> /\ RoleOf(copies[1].call) = "src"
  /\ copies[2].key = <<1, 1>> /\ RoleOf(copies[2].call) = "src"
  /\ copies[1].dst.raw = DstAddr(1, 2) /\ copies[2].dst.raw = DstAddr(1, 1)
  /\ fb_send_counter + fpb_send_counter = 2
  /\ pgas_send_info_map = <<>>

\* the call of this step finds a stored descriptor for its peer and SeqNum
FindsEntry == Matching(pgas_send_info_map, last'[1]) # {}

CountersUnchanged == UNCHANGED <<fb_send_counter, fpb_send_counter>>

(***************************************************************************)
(* C4  Size mismatch detection: a call that finds a stored descriptor with *)
(* its peer and SeqNum but another nbytes ends in SizeMismatch with the    *)
(* table (every field of every descriptor), the copies issued and the      *)
(* counters exactly as before the call; and only such a call ends so.      *)
(***************************************************************************)
SizeMismatchDetection ==
  [][ /\ (FindsEntry /\ Found(last'[1]).nbytes # last'[1].nbytes) =>
           /\ fatal' = "SizeMismatch"
           /\ pgas_send_info_map' = pgas_send_info_map
           /\ copies' = copies
           /\ CountersUnchanged
      /\ fatal' = "SizeMismatch" =>
           (FindsEntry /\ Found(last'[1]).nbytes # last'[1].nbytes)
    ]_vars

\* destination half with 64 bytes stored, then the source half with 128
SizeMismatchDetectionWitness ==
  /\ fatal = "SizeMismatch"
  /\ last # <<>>
  /\ RoleOf(last[1]) = "src" /\ last[1].nbytes = 128
  /\ Matching(pgas_send_info_map, last[1]) # {}
  /\ Found(last[1]).nbytes = 64
  /\ Found(last[1]).src_ptr.raw = NULL
  /\ copies = <<>>
  /\ fb_send_counter = 0 /\ fpb_send_counter = 0

(***************************************************************************)
(* C5  Duplicate source detection: a source half that finds a stored       *)
(* source half (src known, dst NULL) of its peer, SeqNum and nbytes ends   *)
(* in DuplicateRole; no copy is issued and no counter is incremented.      *)
(***************************************************************************)
DuplicateSourceDetection ==
  [][ ( /\ RoleOf(last'[1]) = "src"
        /\ FindsEntry
        /\ Found(last'[1]).src_ptr.raw # NULL
        /\ Found(last'[1]).dst_ptr.raw = NULL
        /\ Found(last'[1]).nbytes = last'[1].nbytes )
      => /\ fatal' = "DuplicateRole"
         /\ copies' = copies
         /\ CountersUnchanged
    ]_vars

\* two source halves for <<1, 1>> and no destination half
DuplicateSourceDetectionWitness ==
  /\ fatal = "DuplicateRole"
  /\ ncalls[<<1, 1>>]["src"] = 2 /\ ncalls[<<1, 1>>]["dst"] = 0
  /\ total = 2
  /\ copies = <<>>
  /\ fb_send_counter = 0 /\ fpb_send_counter = 0

FullyKnown(send_info) ==
  send_info.src_ptr.raw # NULL /\ send_info.dst_ptr.raw # NULL

HalfKnown(send_info) ==
  (send_info.src_ptr.raw # NULL) # (send_info.dst_ptr.raw # NULL)

(***************************************************************************)
(* C6  Reentrancy ordering: whenever a call is suspended inside            *)
(* async_copy_and_signal, so that a nested BLPgas::Send can run, the table *)
(* no longer holds the fully known descriptor whose copy was issued.       *)
(***************************************************************************)
EraseBeforeReentry ==
  \A f \in DOMAIN stack :
    ~ ( /\ stack[f].it \in DOMAIN pgas_send_info_map
        /\ FullyKnown(pgas_send_info_map[stack[f].it].second) )

(***************************************************************************)
(* C7  Invariant I3: the table never holds two descriptors with the same   *)
(* peer and SeqNum; a call for a key that has a stored descriptor finds it *)
(* and inserts nothing, and a call that finds none inserts exactly one.    *)
(***************************************************************************)
OneDescriptorPerKey ==
  [][ /\ \A i \in DOMAIN pgas_send_info_map', j \in DOMAIN pgas_send_info_map' :
           ( /\ pgas_send_info_map'[i].first = pgas_send_info_map'[j].first
             /\ pgas_send_info_map'[i].second.SeqNum = pgas_send_info_map'[j].second.SeqNum )
           => i = j
      /\ HasEntry(pgas_send_info_map, KeyOf(last'[1])) =>
           /\ FindsEntry
           /\ Len(pgas_send_info_map') <= Len(pgas_send_info_map)
           /\ (fatal' = "none" => ~HasEntry(pgas_send_info_map', KeyOf(last'[1])))
      /\ ~HasEntry(pgas_send_info_map, KeyOf(last'[1])) =>
           Len(pgas_send_info_map') = Len(pgas_send_info_map) + 1
    ]_vars

\* three keys stored, then a second arrival for one of them completed it:
\* the two others remain, one descriptor each
OneDescriptorPerKeyWitness ==
  /\ fatal = "none"
  /\ total = 4
  /\ Len(pgas_send_info_map) = 2
  /\ Len(copies) = 1
  /\ ~HasEntry(pgas_send_info_map, copies[1].key)
  /\ HasEntry(pgas_send_info_map, <<1, 2>>)
  /\ HasEntry(pgas_send_info_map, <<2, 2>>)

\* the call of this step supplies the half that the descriptor it finds lacks
Completes ==
  /\ FindsEntry
  /\ Found(last'[1]).nbytes = last'[1].nbytes
  /\ \/ /\ Found(last'[1]).src_ptr.raw = NULL /\ Found(last'[1]).dst_ptr.raw # NULL
        /\ last'[1].src.raw # NULL
     \/ /\ Found(last'[1]).src_ptr.raw # NULL /\ Found(last'[1]).dst_ptr.raw = NULL
        /\ last'[1].dst.raw # NULL

(***************************************************************************)
(* C9  Invariant I4: between calls no descriptor of the table has both     *)
(* src_ptr and dst_ptr known; the call that supplies the missing half of a *)
(* stored descriptor issues the copy and erases the descriptor before it   *)
(* returns.                                                                *)
(***************************************************************************)
NoFullyKnownDescriptor ==
  [][ /\ \A i \in DOMAIN pgas_send_info_map' :
           ~FullyKnown(pgas_send_info_map'[i].second)
      /\ Completes =>
           /\ fatal' = "none"
           /\ Len(copies') = Len(copies) + 1
           /\ copies'[Len(copies')].key = KeyOf(last'[1])
           /\ Len(pgas_send_info_map') = Len(pgas_send_info_map) - 1
           /\ ~HasEntry(pgas_send_info_map', KeyOf(last'[1]))
    ]_vars

\* a destination half completed a stored source half while another
\* half-known descriptor was waiting: the table holds only the latter
NoFullyKnownDescriptorWitness ==
  /\ fatal = "none"
  /\ last # <<>>
  /\ RoleOf(last[1]) = "dst"
  /\ Len(copies) = 1
  /\ copies[1].call = last[1]
  /\ Len(pgas_send_info_map) = 1
  /\ HalfKnown(pgas_send_info_map[1].second)

IssuedWith(log, done_event) ==
  Cardinality({i \in DOMAIN log : log[i].done_event = done_event})

(***************************************************************************)
(* C10  Counter counts issued transfers: each counter equals the number of *)
(* copies issued for transfers whose source half supplied it (the source   *)
(* half supplies fb_send_event with fb_send_counter and fpb_send_event     *)
(* with fpb_send_counter); a call that only registers a half changes no    *)
(* counter, and a call that issues a copy adds 1 to the counter supplied   *)
(* with the source half of that transfer and leaves the other unchanged.   *)
(***************************************************************************)
CounterCountsIssuedTransfers ==
  [][ /\ fb_send_counter' = IssuedWith(copies', "fb_send_event")
      /\ fpb_send_counter' = IssuedWith(copies', "fpb_send_event")
      /\ Len(copies') \in {Len(copies), Len(copies) + 1}
      /\ copies' = copies => CountersUnchanged
      /\ ~FindsEntry => (copies' = copies /\ CountersUnchanged)
      /\ Len(copies') = Len(copies) + 1 =>
           /\ CounterValue(Current', SourceCounter(last'[1]))
                = CounterValue(Current, SourceCounter(last'[1])) + 1
           /\ CounterValue(Current', OtherCounter(SourceCounter(last'[1])))
                = CounterValue(Current, OtherCounter(SourceCounter(last'[1])))
    ]_vars

\* two transfers issued on different channels and one half still waiting
CounterCountsIssuedTransfersWitness ==
  /\ fatal = "none"
  /\ Len(copies) = 2
  /\ fb_send_counter = 1 /\ fpb_send_counter = 1
  /\ copies[1].done_event = "fpb_send_event"
  /\ copies[2].done_event = "fb_send_event"
  /\ RoleOf(copies[1].call) = "dst"
  /\ RoleOf(copies[2].call) = "src"

\* the descriptor the call of this step appended to the table
Registered == pgas_send_info_map'[Len(pgas_send_info_map')].second

(***************************************************************************)
(* C8  Invariant I1, as the code has it: a call that finds no descriptor   *)
(* for its peer and SeqNum inserts one descriptor whose src_ptr and        *)
(* dst_ptr are the src and dst of the call, so the descriptor has exactly  *)
(* one known address whenever the call passes exactly one (a source half   *)
(* or a destination half); nothing is checked at registration.             *)
(***************************************************************************)
RegisteredAsPassed ==
  [][ ~HasEntry(pgas_send_info_map, KeyOf(last'[1])) =>
        /\ fatal' = "none"
        /\ pgas_send_info_map' = Append(pgas_send_info_map, pgas_send_info_map'[Len(pgas_send_info_map')])
        /\ pgas_send_info_map'[Len(pgas_send_info_map')].first = last'[1].dst.where
        /\ Registered.src_ptr = last'[1].src
        /\ Registered.dst_ptr = last'[1].dst
        /\ Registered.SeqNum = last'[1].SeqNum
        /\ (RoleOf(last'[1]) \in {"src", "dst"} => HalfKnown(Registered))
    ]_vars

\* a source half and a destination half of different tags, both registered
RegisteredAsPassedWitness ==
  /\ fatal = "none"
  /\ total = 2
  /\ Len(pgas_send_info_map) = 2
  /\ pgas_send_info_map[1].second.src_ptr.raw = SrcAddr(1, 1)
  /\ pgas_send_info_map[1].second.dst_ptr.raw = NULL
  /\ pgas_send_info_map[2].second.src_ptr.raw = NULL
  /\ pgas_send_info_map[2].second.dst_ptr.raw = DstAddr(1, 2)
  /\ last[1].dst.raw = DstAddr(1, 2)

\* C8 as stated: for every argument combination of the call, every
\* descriptor in the table has exactly one of src_ptr / dst_ptr known
EveryDescriptorHalfKnown ==
  \A i \in DOMAIN pgas_send_info_map : HalfKnown(pgas_send_info_map[i].second)

\* the step is a call of BLPgas::Send (not a return of the copy primitive)
IsCall == total' = total + 1

(***************************************************************************)
(* C11  No-match registration: a call that finds no descriptor with its    *)
(* peer and SeqNum appends exactly one descriptor, keyed by the peer and   *)
(* holding the seven arguments of the call, issues no copy, changes no     *)
(* counter and leaves every descriptor already stored as it was.           *)
(***************************************************************************)
NoMatchRegistration ==
  [][ ~HasEntry(pgas_send_info_map, KeyOf(last'[1])) =>
        /\ fatal' = "none"
        /\ pgas_send_info_map' =
             Append(pgas_send_info_map,
                    [first |-> last'[1].dst.where,
                     second |-> [src_ptr |-> last'[1].src,
                                 dst_ptr |-> last'[1].dst,
                                 nbytes |-> last'[1].nbytes,
                                 SeqNum |-> last'[1].SeqNum,
                                 signal_event |-> last'[1].signal_event,
                                 done_event |-> last'[1].done_event,
                                 send_counter |-> last'[1].send_counter]])
        /\ copies' = copies
        /\ CountersUnchanged
    ]_vars

\* a destination half for (peer 1, tag 1) announced on an empty table: the
\* table is the single entry {peer 1, tag 1, dst known, src NULL}
NoMatchRegistrationWitness ==
  /\ fatal = "none"
  /\ total = 1
  /\ Len(pgas_send_info_map) = 1
  /\ pgas_send_info_map[1].first = 1
  /\ pgas_send_info_map[1].second.SeqNum = 1
  /\ pgas_send_info_map[1].second.dst_ptr.raw = DstAddr(1, 1)
  /\ pgas_send_info_map[1].second.src_ptr.raw = NULL
  /\ copies = <<>>
  /\ fb_send_counter = 0 /\ fpb_send_counter = 0

(***************************************************************************)
(* C12  Lookup inconsistency is fatal: a call that finds a stored          *)
(* descriptor of its peer, SeqNum and nbytes whose src_ptr and dst_ptr are *)
(* both known ends in LookupInconsistency, with the table, the copies      *)
(* issued and the counters exactly as before the call.                     *)
(***************************************************************************)
LookupInconsistencyFatal ==
  [][ ( /\ IsCall
        /\ FindsEntry
        /\ Found(last'[1]).nbytes = last'[1].nbytes
        /\ FullyKnown(Found(last'[1])) )
      => /\ fatal' = "LookupInconsistency"
         /\ pgas_send_info_map' = pgas_send_info_map
         /\ copies' = copies
         /\ CountersUnchanged
    ]_vars

\* a call nested in the copy of (peer 1, tag 1) announced that key again
\* and found its fully known descriptor
LookupInconsistencyFatalWitness ==
  /\ fatal = "LookupInconsistency"
  /\ stack # <<>>
  /\ Len(copies) = 1
  /\ KeyOf(last[1]) = copies[1].key
  /\ FullyKnown(Found(last[1]))
  /\ fb_send_counter = 0 /\ fpb_send_counter = 0

(***************************************************************************)
(* C13  Duplicate destination detection: a destination half that finds a   *)
(* stored destination half (dst known, src NULL, no counter) of its peer,  *)
(* SeqNum and nbytes ends in DuplicateRole; the stored descriptor holds    *)
(* the same values after the call as before, no copy is issued and no      *)
(* counter is incremented.                                                 *)
(***************************************************************************)
DuplicateDestDetection ==
  [][ ( /\ RoleOf(last'[1]) = "dst"
        /\ FindsEntry
        /\ Found(last'[1]).src_ptr.raw = NULL
        /\ Found(last'[1]).dst_ptr.raw # NULL
        /\ Found(last'[1]).nbytes = last'[1].nbytes )
      => /\ fatal' = "DuplicateRole"
         /\ pgas_send_info_map' = pgas_send_info_map
         /\ copies' = copies
         /\ CountersUnchanged
    ]_vars

\* two destination halves for <<1, 1>> and no source half
DuplicateDestDetectionWitness ==
  /\ fatal = "DuplicateRole"
  /\ ncalls[<<1, 1>>]["dst"] = 2 /\ ncalls[<<1, 1>>]["src"] = 0
  /\ total = 2
  /\ Len(pgas_send_info_map) = 1
  /\ pgas_send_info_map[1].second.src_ptr.raw = NULL
  /\ pgas_send_info_map[1].second.send_counter = NullPtr
  /\ copies = <<>>
  /\ fb_send_counter = 0 /\ fpb_send_counter = 0

(***************************************************************************)
(* C14  No copy with a missing side: every async_copy_and_signal issued,   *)
(* after any sequence of calls with any mix of known and NULL addresses,   *)
(* has a known source address and a known destination address; the side    *)
(* that the completing call did not supply is the stored one.              *)
(***************************************************************************)
NoCopyWithMissingSide ==
  \A i \in DOMAIN copies :
    /\ copies[i].src.raw # NULL
    /\ copies[i].dst.raw # NULL
    /\ copies[i].call.src.raw = NULL => copies[i].dst = copies[i].call.dst
    /\ copies[i].call.dst.raw = NULL => copies[i].src = copies[i].call.src

\* one transfer completed by its source half and one by its destination half
NoCopyWithMissingSideWitness ==
  /\ Len(copies) = 2
  /\ RoleOf(copies[1].call) = "src" /\ copies[1].dst.raw = DstAddr(1, 1)
  /\ RoleOf(copies[2].call) = "dst" /\ copies[2].src.raw = SrcAddr(1, 2)

\* the descriptor of key k in the table (there is at most one)
EntryOf(map, k) ==
  map[CHOOSE i \in DOMAIN map : map[i].first = k[1] /\ map[i].second.SeqNum = k[2]]

Issued(log, k) == Cardinality(CopiesFor(log, k))

(***************************************************************************)
(* C15  Lifecycle of a key, as the code has it: a descriptor enters the    *)
(* table half-known, by a call for its key that found none; while it is    *)
(* stored it is not changed; it leaves the table only in the call that     *)
(* issues its copy, and every copy issued for a key removes the key's      *)
(* descriptor in the same call.  The table keeps no record of fired keys:  *)
(* a later call for a fired key starts again from a new half-known         *)
(* descriptor.                                                             *)
(***************************************************************************)
KeyLifecycle ==
  [][ fatal' = "none" =>
      \A k \in Keys :
        /\ (~HasEntry(pgas_send_info_map, k) /\ HasEntry(pgas_send_info_map', k)) =>
             /\ KeyOf(last'[1]) = k
             /\ HalfKnown(EntryOf(pgas_send_info_map', k).second)
             /\ Issued(copies', k) = Issued(copies, k)
        /\ (HasEntry(pgas_send_info_map, k) /\ HasEntry(pgas_send_info_map', k)) =>
             /\ EntryOf(pgas_send_info_map', k) = EntryOf(pgas_send_info_map, k)
             /\ Issued(copies', k) = Issued(copies, k)
        /\ (HasEntry(pgas_send_info_map, k) /\ ~HasEntry(pgas_send_info_map', k)) =>
             /\ KeyOf(last'[1]) = k
             /\ Issued(copies', k) = Issued(copies, k) + 1
        /\ (~HasEntry(pgas_send_info_map, k) /\ ~HasEntry(pgas_send_info_map', k)) =>
             Issued(copies', k) = Issued(copies, k)
    ]_vars

\* key <<1, 1>> fired and was then announced again: a new half is stored
KeyLifecycleWitness ==
  /\ fatal = "none"
  /\ total = 3
  /\ Issued(copies, <<1, 1>>) = 1
  /\ HasEntry(pgas_send_info_map, <<1, 1>>)
  /\ HalfKnown(EntryOf(pgas_send_info_map, <<1, 1>>).second)

\* C15 as stated: once the transfer of a key has fired, the table never
\* again holds a descriptor for that key
FiredIsTerminal ==
  \A k \in Keys : Issued(copies, k) > 0 => ~HasEntry(pgas_send_info_map, k)

(***************************************************************************)
(* C16  Peer isolation: a call for peer p and SeqNum s of which the table  *)
(* holds no descriptor, while it holds one with SeqNum s for another peer, *)
(* registers its own half-known descriptor under p and issues no copy;     *)
(* every copy issued completed a descriptor stored under the peer and the  *)
(* SeqNum of the completing call.                                          *)
(***************************************************************************)
PeerIsolation ==
  [][ /\ ( /\ ~HasEntry(pgas_send_info_map, KeyOf(last'[1]))
           /\ \E i \in DOMAIN pgas_send_info_map :
                /\ pgas_send_info_map[i].second.SeqNum = last'[1].SeqNum
                /\ pgas_send_info_map[i].first # last'[1].dst.where )
         => /\ fatal' = "none"
            /\ copies' = copies
            /\ Len(pgas_send_info_map') = Len(pgas_send_info_map) + 1
            /\ SubSeq(pgas_send_info_map', 1, Len(pgas_send_info_map)) = pgas_send_info_map
            /\ Registered.src_ptr = last'[1].src /\ Registered.dst_ptr = last'[1].dst
            /\ pgas_send_info_map'[Len(pgas_send_info_map')].first = last'[1].dst.where
      /\ \A i \in DOMAIN copies' :
           /\ copies'[i].key[1] = copies'[i].call.dst.where
           /\ copies'[i].key[2] = copies'[i].call.SeqNum
           /\ copies'[i].dst.where = copies'[i].key[1]
    ]_vars

\* a destination half for peer 1 and a source half for peer 2, both with
\* SeqNum 1: two half-known descriptors and no copy
PeerIsolationWitness ==
  /\ fatal = "none"
  /\ total = 2
  /\ copies = <<>>
  /\ Len(pgas_send_info_map) = 2
  /\ pgas_send_info_map[1].first = 1 /\ pgas_send_info_map[2].first = 2
  /\ pgas_send_info_map[1].second.SeqNum = 1 /\ pgas_send_info_map[2].second.SeqNum = 1
  /\ pgas_send_info_map[1].second.src_ptr.raw = NULL
  /\ pgas_send_info_map[2].second.dst_ptr.raw = NULL

\* every key of PairKeys has fired once and nothing is left in the table
AllFired ==
  /\ fatal = "none"
  /\ \A k \in PairKeys : Issued(copies, k) = 1
  /\ Len(copies) = Cardinality(PairKeys)
  /\ fb_send_counter = IssuedWith(copies, "fb_send_event")
  /\ fpb_send_counter = IssuedWith(copies, "fpb_send_event")
  /\ fb_send_counter + fpb_send_counter = Cardinality(PairKeys)
  /\ pgas_send_info_map = <<>>

(***************************************************************************)
(* C17  Eventual firing: in every run in which each key of PairKeys gets   *)
(* exactly one source half and one destination half of equal nbytes, in    *)
(* any order and interleaving, a state is eventually reached where exactly *)
(* one copy has been issued per key, the counters have been incremented    *)
(* once per key, and pgas_send_info_map is empty.                          *)
(***************************************************************************)
EventualFiring == <>AllFired

\* all keys fired; for peer 1 the halves came as dst-1, dst-2, src-2, src-1,
\* so SeqNum 2 fired before SeqNum 1, both completed by their source half
EventualFiringWitness ==
  /\ AllFired
  /\ total = 2 * Cardinality(PairKeys)
  /\ \E i, j \in DOMAIN copies :
       /\ i < j
       /\ copies[i].key = <<1, 2>> /\ copies[j].key = <<1, 1>>
       /\ RoleOf(copies[i].call) = "src" /\ RoleOf(copies[j].call) = "src"

\* the key under which the descriptor at position i is stored
StoredKey(map, i) == <<map[i].first, map[i].second.SeqNum>>

(***************************************************************************)
(* C18  Orphaned half persists: in every step, each descriptor stored in   *)
(* pgas_send_info_map whose key is not the key of the call of that step    *)
(* is still in the table afterwards with all fields unchanged, and no new  *)
(* descriptor appears under its key; a descriptor is removed only by a     *)
(* call for its peer and SeqNum.                                           *)
(***************************************************************************)
OrphanedHalfPersists ==
  [][ \A i \in DOMAIN pgas_send_info_map :
        KeyOf(last'[1]) # StoredKey(pgas_send_info_map, i) =>
          /\ \E j \in DOMAIN pgas_send_info_map' :
               pgas_send_info_map'[j] = pgas_send_info_map[i]
          /\ Cardinality({j \in DOMAIN pgas_send_info_map' :
                StoredKey(pgas_send_info_map', j) = StoredKey(pgas_send_info_map, i)})
               = Cardinality({j \in DOMAIN pgas_send_info_map :
                   StoredKey(pgas_send_info_map, j) = StoredKey(pgas_send_info_map, i)})
    ]_vars

\* the destination half of <<1, 1>>, announced first, is still waiting after
\* three calls for other keys, one of which fired
OrphanedHalfPersistsWitness ==
  /\ fatal = "none"
  /\ total = 4
  /\ CallsFor(<<1, 1>>) = 1
  /\ Len(copies) = 1
  /\ Len(pgas_send_info_map) = 2
  /\ pgas_send_info_map[1] =
       [first |-> 1, second |-> SendInfo(DestHalf(1, 1, 64))]

\* position of the descriptor of key k in the table
PositionOf(map, k) == CHOOSE i \in DOMAIN map : StoredKey(map, i) = k

(***************************************************************************)
(* C19  Frame of a firing call: a call that matches and fires the          *)
(* descriptor of key (p, s) removes exactly that descriptor from           *)
(* pgas_send_info_map, leaves every other descriptor in place, in order    *)
(* and with all fields unchanged, adds 1 to the counter supplied with the  *)
(* source half of (p, s) and leaves the other counter unchanged.           *)
(***************************************************************************)
FiringFrame ==
  [][ Len(copies') = Len(copies) + 1 =>
        LET k == KeyOf(last'[1])
            it == PositionOf(pgas_send_info_map, k)
            c == copies'[Len(copies')]
        IN /\ HasEntry(pgas_send_info_map, k)
           /\ c.key = k
           /\ Len(pgas_send_info_map') = Len(pgas_send_info_map) - 1
           /\ \A i \in DOMAIN pgas_send_info_map' :
                pgas_send_info_map'[i] =
                  pgas_send_info_map[IF i < it THEN i ELSE i + 1]
           /\ ~HasEntry(pgas_send_info_map', k)
           /\ IF c.done_event = "fb_send_event"
                THEN /\ fb_send_counter' = fb_send_counter + 1
                     /\ fpb_send_counter' = fpb_send_counter
                ELSE /\ fpb_send_counter' = fpb_send_counter + 1
                     /\ fb_send_counter' = fb_send_counter
    ]_vars

\* three destination halves waiting, then the source half of <<1, 2>> fires
\* the middle one: the other tag of peer 1 and the entry of peer 2 remain
FiringFrameWitness ==
  /\ fatal = "none"
  /\ total = 4
  /\ Len(copies) = 1
  /\ copies[1].key = <<1, 2>>
  /\ RoleOf(copies[1].call) = "src"
  /\ pgas_send_info_map =
       << [first |-> 1, second |-> SendInfo(DestHalf(1, 1, 64))],
          [first |-> 2, second |-> SendInfo(DestHalf(2, 1, 128))] >>

=============================================================================
